---- MODULE Spec2Model ----
(***************************************************************************)
(* Keyset (cursor) pagination of adonisjs-cursor-paginator:                *)
(* CursorPaginator.createPaginateFunction and its helpers, run against a   *)
(* row source that filters, sorts and limits like an SQL store.            *)
(***************************************************************************)
EXTENDS Integers, Sequences, FiniteSets, TLC

\* Bounds of the model.
MaxId == 3
MaxT == 2
MaxLimit == 2
MaxWrites == 1

VARIABLES
    store,     \* the rows of the table the query reads: records [id, t], id unique
    order,     \* the order statements of each query the caller builds
    limit,     \* the limit argument of the last call (of every call, when fixed)
    cursor,    \* the cursor argument of the last call
    outcome,   \* "none" before any call, "page", or the error the last call threw
    page,      \* the CursorPaginator the last call returned
    ran,       \* whether the last call executed its fetch against the store
    fetched,   \* the rows the store returned to the last call, in fetch order
    via,       \* where the last call's cursor came from: first, next, prev, raw
    chain,     \* "next" after a call with a page's nextCursor, "nextprev" after
               \* a call with the prevCursor of the page that call returned
    pageN,     \* while chain is set: the items of the page the chain started at
    trav,      \* items of the forward traversal in progress, concatenated
    phase,     \* "idle", "open" (traversal under way), "done" or "off"
    stable,    \* rows in the store ever since the traversal started
    writes,    \* inserts and deletes made so far
    builder,   \* the statements the last call left in its query builder
    prior,     \* after a call repeated on its builder: what the first call gave
    codecItem, \* codec: the row a cursor is generated from
    itemFlag,  \* codec: the pointToNext argument of genCursor
    codec,     \* codec: "off", "idle", "encoded" or "decoded"
    decoded,   \* codec: what JSON.parse made of the generated cursor
    filterRow, \* filter: the row the boundary filter is applied to
    passes     \* filter: "none", or "yes" or "no" as the row passes the filter

codecVars == <<codecItem, itemFlag, codec, decoded>>

reuseVars == <<builder, prior>>

filterVars == <<filterRow, passes>>

vars == <<store, order, limit, cursor, outcome, page, ran, fetched, via, chain,
          pageN, trav, phase, stable, writes, builder, prior, codecItem, itemFlag,
          codec, decoded, filterRow, passes>>

----------------------------------------------------------------------------
\* JavaScript values, as a row object holds them and a cursor carries them:
\* the type, the number (or the epoch milliseconds of a Date) in n, the text
\* of a string in s.

JSValue(type, n, s) == [type |-> type, n |-> n, s |-> s]

Number(n) == JSValue("number", n, "")

String(s) == JSValue("string", 0, s)

Boolean(b) == JSValue("boolean", 0, IF b THEN "true" ELSE "false")

Null == JSValue("null", 0, "")

Undefined == JSValue("undefined", 0, "")

Date(ms) == JSValue("Date", ms, "")

\* Date.prototype.toISOString: the string that spells the instant out.
toISOString(date) == JSValue("string", date.n, "ISO-8601")

----------------------------------------------------------------------------
\* The data the store holds and the orderings a caller can ask for.

ColumnNames == {"id", "t"}

Rows == [id : {Number(n) : n \in 1..MaxId}, t : {Number(n) : n \in 1..MaxT}]

\* id is the table's unique column.
Datasets == {S \in SUBSET Rows : \A r, s \in S : r.id = s.id => r = s}

\* The statement orderBy(column, direction) leaves in the query builder; the
\* direction is kept as the caller wrote it, here 'asc' or 'DESC'.
OrderStatement ==
    [grouping : {"order"}, type : {"orderByBasic"}, value : ColumnNames,
     direction : {"asc", "DESC"}]

\* The orderings of a query: none, one column, or two distinct columns.
Orderings ==
    {<<>>} \cup {<<c>> : c \in OrderStatement}
           \cup {o \in [1..2 -> OrderStatement] : o[1].value # o[2].value}

----------------------------------------------------------------------------
\* Sequences.

Take(s, n) == IF n >= Len(s) THEN s ELSE SubSeq(s, 1, n)

\* items.reverse() left out.
Reverse_Forgotten(s) == s

\* Array.prototype.reverse
Reverse(s) == [i \in 1..Len(s) |-> s[Len(s) + 1 - i]]

Range(s) == {s[i] : i \in 1..Len(s)}

----------------------------------------------------------------------------
\* The cursor string.  A string is modelled by the JSON text its base64
\* decoding holds: "none" is no cursor (undefined or null), "garbage" a
\* string whose bytes are no JSON text, "null" the JSON text null, "object"
\* a JSON object with or without its data array and point_to_next flag.

CursorString(kind, hasData, data, hasFlag, flag) ==
    [kind |-> kind, hasData |-> hasData, data |-> data,
     hasFlag |-> hasFlag, flag |-> flag]

NoCursor == CursorString("none", FALSE, <<>>, FALSE, FALSE)

\* What JSON.stringify writes for an element of an array: a Date through
\* its toJSON, undefined as null, the JSON types as they are.
SerializeJSONProperty(value) ==
    CASE value.type = "Date" -> toISOString(value)
      [] value.type = "undefined" -> Null
      [] OTHER -> value

\* JSON.stringify of a TCursor {data, point_to_next}, then base64.  The
\* elements of data are kept as the values JSON.parse reads back from them.
JSONstringify(c) ==
    CursorString("object", TRUE,
                 [i \in 1..Len(c.data) |-> SerializeJSONProperty(c.data[i])],
                 TRUE, c.point_to_next)

\* JSON.parse(Buffer.from(cursor, 'base64').toString('utf-8')): the parsed
\* value, or a throw when the text is no JSON.
JSONparse(str) ==
    IF str.kind = "garbage"
    THEN [threw |-> TRUE, isNull |-> FALSE, hasData |-> FALSE, data |-> <<>>,
          point_to_next |-> FALSE]
    ELSE [threw |-> FALSE, isNull |-> str.kind = "null",
          hasData |-> str.kind = "object" /\ str.hasData,
          data |-> IF str.kind = "object" /\ str.hasData THEN str.data ELSE <<>>,
          \* a missing flag reads as undefined, which is falsy
          point_to_next |-> str.kind = "object" /\ str.hasFlag /\ str.flag]

\* The cursor always made with the default of the pointToNext parameter.
genCursor_DefaultFlag(columns, item, pointToNext) ==
    JSONstringify([data |-> [i \in 1..Len(columns) |-> item[columns[i].column]],
                   point_to_next |-> FALSE])

\* genCursor: one value per key of columns, in key order.
genCursor(columns, item, pointToNext) ==
    JSONstringify([data |-> [i \in 1..Len(columns) |-> item[columns[i].column]],
                   point_to_next |-> pointToNext])

----------------------------------------------------------------------------
\* The ordering of a query and the columns object made from it.

\* String.prototype.toLowerCase on a direction.
toLowerCase(str) ==
    CASE str = "ASC" -> "asc" [] str = "DESC" -> "desc" [] OTHER -> str

\* extractOrderByClauses: the orderByBasic statements of the query, in order,
\* as {column, direction} with the direction in lower case.
extractOrderByClauses(query) ==
    LET IsOrderBy(statement) ==
            statement.grouping = "order" /\ statement.type = "orderByBasic"
        statements == SelectSeq(query, IsOrderBy)
    IN  [i \in 1..Len(statements) |->
            [column |-> statements[i].value,
             direction |-> toLowerCase(statements[i].direction)]]

\* The number a property name spells when it is an array index, else -1.
\* Of the column names of the model, "2024" is the one that is.
ArrayIndex(key) == IF key = "2024" THEN 2024 ELSE -1

\* One step of the reduce of convertOrderByToColumns: acc[column] = direction.
\* An object lists its array-index keys first, in ascending numeric order,
\* and its other keys after them, each where it was first inserted.
SetKey(acc, clause) ==
    IF \E i \in 1..Len(acc) : acc[i].column = clause.column
    THEN [i \in 1..Len(acc) |->
             IF acc[i].column = clause.column THEN clause ELSE acc[i]]
    ELSE IF ArrayIndex(clause.column) >= 0
    THEN LET k == Cardinality({i \in 1..Len(acc) :
                      /\ ArrayIndex(acc[i].column) >= 0
                      /\ ArrayIndex(acc[i].column) < ArrayIndex(clause.column)})
         IN  SubSeq(acc, 1, k) \o <<clause>> \o SubSeq(acc, k + 1, Len(acc))
    ELSE Append(acc, clause)

RECURSIVE ReduceClauses(_, _)
ReduceClauses(acc, clauses) ==
    IF clauses = <<>> THEN acc
    ELSE ReduceClauses(SetKey(acc, Head(clauses)), Tail(clauses))

\* convertOrderByToColumns: the object {column: direction}, as its key sequence.
convertOrderByToColumns(orderByClauses) == ReduceClauses(<<>>, orderByClauses)

\* clearOrderByStatements: the statements of the query that are no order
\* statements.
clearOrderByStatements(query) ==
    LET NotOrder(statement) == statement.grouping # "order"
    IN  SelectSeq(query, NotOrder)

\* The clauses applied as they are, whatever reverse says.
applyOrderBy_NeverReversed(query, orderByClauses, reverse) ==
    query \o
    [i \in 1..Len(orderByClauses) |->
        [grouping |-> "order", type |-> "orderByBasic",
         value |-> orderByClauses[i].column,
         direction |-> orderByClauses[i].direction]]

\* applyOrderBy: query.orderBy(column, direction) for each clause, with the
\* direction inverted when reverse.
applyOrderBy(query, orderByClauses, reverse) ==
    query \o
    [i \in 1..Len(orderByClauses) |->
        [grouping |-> "order", type |-> "orderByBasic",
         value |-> orderByClauses[i].column,
         direction |-> IF reverse
                       THEN (IF orderByClauses[i].direction = "asc"
                             THEN "desc" ELSE "asc")
                       ELSE orderByClauses[i].direction]]

----------------------------------------------------------------------------
\* applyCursorConditions.

\* The comparison operator of one column of the boundary.
CursorOperator(direction, pointToNext) ==
    IF pointToNext
    THEN (IF direction = "asc" THEN ">" ELSE "<")
    ELSE (IF direction = "asc" THEN "<" ELSE ">")

\* The boundary compared with >= and <=: the cursor's own row passes again.
Compare_NonStrict(a, op, b) == IF op = ">" THEN a.n >= b.n ELSE a.n =< b.n

\* where(column, op, value) on a number column: the cell a against the bound
\* number b.
Compare(a, op, b) == IF op = ">" THEN a.n > b.n ELSE a.n < b.n

\* The boundary built from the first column alone, without the equality
\* branch and the nested group of the remaining columns.
applyCursorConditions_FirstColumnOnly(row, columns, data, pointToNext) ==
    Compare(row[Head(columns).column],
            CursorOperator(Head(columns).direction, pointToNext), Head(data))

\* Whether row passes the where group built for columns and data:
\*   column op value [OR column = value AND (group of the remaining columns)]
\* The equality branch and the nested group exist only while data is left.
RECURSIVE applyCursorConditions(_, _, _, _)
applyCursorConditions(row, columns, data, pointToNext) ==
    LET column == Head(columns).column
        direction == Head(columns).direction
        value == Head(data)
        strict == Compare(row[column], CursorOperator(direction, pointToNext), value)
    IN  IF Len(Tail(data)) > 0
        THEN strict \/ (row[column] = value
                        /\ applyCursorConditions(row, Tail(columns), Tail(data),
                                                 pointToNext))
        ELSE strict

----------------------------------------------------------------------------
\* The row source: filter, sort by the order statements, limit.

\* a comes strictly before b under ORDER BY ord, ord a sequence of
\* (column, direction): the first column on which they differ decides.
RECURSIVE Precedes(_, _, _)
Precedes(a, b, ord) ==
    IF ord = <<>> THEN FALSE
    ELSE LET c == Head(ord)
         IN  IF a[c.column] # b[c.column]
             THEN (IF c.direction = "asc"
                   THEN a[c.column].n < b[c.column].n
                   ELSE a[c.column].n > b[c.column].n)
             ELSE Precedes(a, b, Tail(ord))

\* Every sequence the store may return for ORDER BY ord: the rows that no
\* other row precedes come first, and rows that tie on all the order columns
\* come in any order.
RECURSIVE SortedBy(_, _)
SortedBy(S, ord) ==
    IF S = {} THEN {<<>>}
    ELSE UNION {{<<m>> \o s : s \in SortedBy(S \ {m}, ord)} :
                  m \in {x \in S : \A y \in S : ~Precedes(y, x, ord)}}

\* query.where(callback) with the callback of applyCursorConditions: the
\* where group the query holds from then on, built from columns and cursor.
WhereStatement(columns, cursorData) ==
    [grouping |-> "where", type |-> "whereWrapped",
     value |-> [columns |-> columns, data |-> cursorData.data,
                point_to_next |-> cursorData.point_to_next],
     direction |-> ""]

\* this.limit(n) executed: of the rows of S that pass every where group of
\* the query, sorted by the order statements the query holds, the first n.
Exec(S, query, n) ==
    LET IsOrder(statement) == statement.grouping = "order"
        IsWhere(statement) == statement.grouping = "where"
        statements == SelectSeq(query, IsOrder)
        groups == SelectSeq(query, IsWhere)
        ord == [i \in 1..Len(statements) |->
                   [column |-> statements[i].value,
                    direction |-> statements[i].direction]]
        matching == {r \in S : \A i \in 1..Len(groups) :
                        applyCursorConditions(r, groups[i].value.columns,
                                              groups[i].value.data,
                                              groups[i].value.point_to_next)}
    IN  {Take(s, n) : s \in SortedBy(matching, ord)}

----------------------------------------------------------------------------
\* createPaginateFunction: one call of cursorPaginate(limit, cursor).

\* new CursorPaginator(items, nextCursor, prevCursor), returned after the
\* store answered the fetch with rows.
Page(items, nextCursor, prevCursor, rows) ==
    [outcome |-> "page", items |-> items, nextCursor |-> nextCursor,
     prevCursor |-> prevCursor, ran |-> TRUE, fetched |-> rows]

\* The call rejects with error; executed tells whether the fetch was executed.
Throw(error, executed, rows) ==
    [outcome |-> error, items |-> <<>>, nextCursor |-> NoCursor,
     prevCursor |-> NoCursor, ran |-> executed, fetched |-> rows]

\* What the where callback does with the decoded cursor: cursor.data.shift()
\* throws a TypeError when the cursor has no data array; otherwise a boundary
\* filter is built from data.  (With an empty data array, or one longer than
\* the columns, the callback hands undefined to where() as the value or as
\* the column; what the query builder makes of it is not this repository's
\* code, and no call of the model passes such a cursor.)
Boundary(columns, cursorData) ==
    IF ~cursorData.hasData THEN "TypeError" ELSE "filter"

\* this.limit(limit): no extra row fetched.
FetchSize_NoExtraRow(lim) == lim

\* this.limit(limit + 1): one row more than the page, to see whether more exist.
FetchSize(lim) == lim + 1

\* `items.length < limit` in place of `items.length <= limit`.
Overflow_OffByOne(rows, lim) == Len(rows) >= lim

\* The else of `items.length <= limit`: the store returned the extra row.
Overflow(rows, lim) == Len(rows) > lim

\* items.pop() left out.
Pop_Forgotten(rows) == rows

\* items.pop(): the extra row is the last one in fetch order.
Pop(rows) == SubSeq(rows, 1, Len(rows) - 1)

\* The prevCursor emitted without looking at whether a cursor was given.
FullPagePrevCursor_Always(hasCursor, clonedColumns, items) ==
    genCursor(clonedColumns, items[1], FALSE)

\* The prevCursor of a page that holds limit rows: none on a call without
\* cursor, else the cursor of the first item.
FullPagePrevCursor(hasCursor, clonedColumns, items) ==
    IF ~hasCursor THEN NoCursor ELSE genCursor(clonedColumns, items[1], FALSE)

\* The page made of the rows the store returned; isObject is cloneCursorData
\* being an object rather than null.
Assemble(rows, lim, hasCursor, isObject, pointToNext, clonedColumns) ==
    LET backward == hasCursor /\ isObject /\ ~pointToNext
    IN  IF Len(rows) = 0 THEN Page(<<>>, NoCursor, NoCursor, rows)
        ELSE IF ~Overflow(rows, lim)
        THEN IF ~hasCursor THEN Page(rows, NoCursor, NoCursor, rows)
             ELSE IF isObject /\ pointToNext
             THEN Page(rows, NoCursor, genCursor(clonedColumns, rows[1], FALSE), rows)
             ELSE IF backward
             THEN LET items == Reverse(rows)
                  IN  Page(items, genCursor(clonedColumns, items[Len(items)], TRUE),
                           NoCursor, rows)
             ELSE Page(rows, NoCursor, NoCursor, rows)
        ELSE LET popped == Pop(rows)
                 items == IF backward THEN Reverse(popped) ELSE popped
             IN  \* with limit 0 nothing is left: items[-1] is undefined and
                 \* genCursor reads a property of undefined
                 IF Len(items) = 0 THEN Throw("TypeError", TRUE, rows)
                 ELSE Page(items, genCursor(clonedColumns, items[Len(items)], TRUE),
                           FullPagePrevCursor(hasCursor, clonedColumns, items), rows)

\* The fallback with the direction ascending.
DefaultOrderBy_Ascending == <<[column |-> "id", direction |-> "asc"]>>

\* The clause used when the query has no order by: id desc.
DefaultOrderBy == <<[column |-> "id", direction |-> "desc"]>>

\* Every result a call can have on the rows S of the store, query being the
\* statements the query builder holds when the call is made; each result
\* comes with the statements the call leaves in the builder.
cursorPaginate(S, query, lim, cur) ==
    LET extracted == extractOrderByClauses(query)
        orderByClauses == IF Len(extracted) = 0 THEN DefaultOrderBy ELSE extracted
        \* this.orderBy('id', 'desc')
        defaulted == IF Len(extracted) = 0
                     THEN applyOrderBy(query, orderByClauses, FALSE)
                     ELSE query
        columns == convertOrderByToColumns(orderByClauses)
        hasCursor == cur.kind # "none"
        cursorData == JSONparse(cur)
        isObject == hasCursor /\ ~cursorData.isNull
        boundary == IF isObject THEN Boundary(columns, cursorData) ELSE "none"
        filtered == IF boundary = "filter"
                    THEN Append(defaulted, WhereStatement(columns, cursorData))
                    ELSE defaulted
        shouldReverse == isObject /\ ~cursorData.point_to_next
        ordered == applyOrderBy(clearOrderByStatements(filtered), orderByClauses,
                                shouldReverse)
        pages == {Assemble(rows, lim, hasCursor, isObject, cursorData.point_to_next,
                           columns) : rows \in Exec(S, ordered, FetchSize(lim))}
    IN  IF hasCursor /\ cursorData.threw
        THEN {[result |-> Throw("SyntaxError", FALSE, <<>>), query |-> defaulted]}
        ELSE IF boundary = "TypeError"
        THEN {[result |-> Throw("TypeError", FALSE, <<>>), query |-> defaulted]}
        ELSE {[result |-> p, query |-> ordered] : p \in pages}

----------------------------------------------------------------------------
\* The state machine: a caller that pages through the store.

NoPage == [items |-> <<>>, nextCursor |-> NoCursor, prevCursor |-> NoCursor]

\* No call has been repeated.
NoPrior == [outcome |-> "none", page |-> NoPage]

\* The codec variables while no cursor is generated by hand.
NoItem == <<>>

NotDecoded == JSONparse(CursorString("null", FALSE, <<>>, FALSE, FALSE))

Init ==
    /\ store \in Datasets
    /\ order \in Orderings
    /\ limit \in 1..MaxLimit
    /\ cursor = NoCursor
    /\ outcome = "none"
    /\ page = NoPage
    /\ ran = FALSE
    /\ fetched = <<>>
    /\ via = "none"
    /\ chain = "none"
    /\ pageN = <<>>
    /\ trav = <<>>
    /\ phase = "idle"
    /\ stable = store
    /\ writes = 0
    /\ builder = <<>>
    /\ prior = NoPrior
    /\ codecItem = NoItem
    /\ itemFlag = FALSE
    /\ codec = "off"
    /\ decoded = NotDecoded
    /\ filterRow = NoItem
    /\ passes = "none"

\* One call of cursorPaginate on a query builder that holds the statements
\* query; v tells where the cursor came from.
Call(query, lim, cur, v) ==
    \E returned \in cursorPaginate(store, query, lim, cur) :
      LET r == returned.result IN
        /\ limit' = lim
        /\ cursor' = cur
        /\ outcome' = r.outcome
        /\ page' = [items |-> r.items, nextCursor |-> r.nextCursor,
                    prevCursor |-> r.prevCursor]
        /\ ran' = r.ran
        /\ fetched' = r.fetched
        /\ via' = v
        /\ chain' = IF v = "next" THEN "next"
                     ELSE IF v = "prev" /\ chain = "next" THEN "nextprev"
                     ELSE "none"
        /\ pageN' = IF v = "next" THEN page.items
                     ELSE IF v = "prev" /\ chain = "next" THEN pageN
                     ELSE <<>>
        /\ IF v = "first" \/ (v = "next" /\ phase = "open")
           THEN /\ trav' = (IF v = "first" THEN <<>> ELSE trav) \o r.items
                /\ phase' = IF r.outcome = "page" /\ r.nextCursor # NoCursor
                            THEN "open" ELSE "done"
                /\ stable' = IF v = "first" THEN store ELSE stable
           ELSE /\ trav' = <<>>
                /\ phase' = "off"
                /\ stable' = stable
        /\ builder' = returned.query
        /\ prior' = IF v = "again" THEN [outcome |-> outcome, page |-> page]
                     ELSE NoPrior
        /\ UNCHANGED <<store, order, writes>>
        /\ UNCHANGED <<codecVars, filterVars>>

\* cursorPaginate(limit) on a query freshly built with the caller's orderBy
\* clauses, as are the queries of PaginateNext and PaginatePrev.
PaginateFirst == Call(order, limit, NoCursor, "first")

\* cursorPaginate(limit, page.nextCursor)
PaginateNext ==
    /\ outcome = "page"
    /\ page.nextCursor # NoCursor
    /\ Call(order, limit, page.nextCursor, "next")

\* cursorPaginate(limit, page.prevCursor)
PaginatePrev ==
    /\ outcome = "page"
    /\ page.prevCursor # NoCursor
    /\ Call(order, limit, page.prevCursor, "prev")

Next == PaginateFirst \/ PaginateNext \/ PaginatePrev

Spec == Init /\ [][Next]_vars

----------------------------------------------------------------------------
\* A caller that keeps the query builder of a call and calls cursorPaginate
\* on it again, with the same limit and cursor.

\* query.cursorPaginate(limit, cursor), a second time on the same query.
PaginateAgain ==
    /\ outcome = "page"
    /\ via # "again"
    /\ Call(builder, limit, cursor, "again")

NextReuse == PaginateFirst \/ PaginateNext \/ PaginatePrev \/ PaginateAgain

SpecReuse == Init /\ [][NextReuse]_vars

----------------------------------------------------------------------------
\* The same caller while other clients write to the table between the
\* fetches of its forward traversal.

\* Another client inserts a row (ids are unique).
InsertRow ==
    /\ phase = "open"
    /\ writes < MaxWrites
    /\ \E r \in Rows :
        /\ \A s \in store : s.id # r.id
        /\ store' = store \cup {r}
    /\ writes' = writes + 1
    /\ UNCHANGED <<order, limit, cursor, outcome, page, ran, fetched, via, chain,
                   pageN, trav, phase, stable>>
    /\ UNCHANGED <<reuseVars, codecVars, filterVars>>

\* Another client deletes a row.
DeleteRow ==
    /\ phase = "open"
    /\ writes < MaxWrites
    /\ \E r \in store :
        /\ store' = store \ {r}
        /\ stable' = stable \ {r}
    /\ writes' = writes + 1
    /\ UNCHANGED <<order, limit, cursor, outcome, page, ran, fetched, via, chain,
                   pageN, trav, phase>>
    /\ UNCHANGED <<reuseVars, codecVars, filterVars>>

NextLive == PaginateFirst \/ PaginateNext \/ InsertRow \/ DeleteRow

SpecLive == Init /\ [][NextLive]_vars

----------------------------------------------------------------------------
\* A request handler that passes the limit and the cursor string of the
\* request to cursorPaginate as they come.

\* The values a cursor of a request may carry.
CursorValues == {Number(n) : n \in 1..MaxT}

\* The data arrays of a request's cursor: one value or two.
CursorData == UNION {[1..n -> CursorValues] : n \in 1..2}

RequestCursors ==
    {NoCursor, CursorString("garbage", FALSE, <<>>, FALSE, FALSE),
               CursorString("null", FALSE, <<>>, FALSE, FALSE)}
    \cup {CursorString("object", FALSE, <<>>, hasFlag, flag) :
            hasFlag \in BOOLEAN, flag \in BOOLEAN}
    \cup {CursorString("object", TRUE, data, hasFlag, flag) :
            data \in CursorData, hasFlag \in BOOLEAN, flag \in BOOLEAN}

RequestLimits == -1..MaxLimit

\* cursorPaginate(request.limit, request.cursor), once per request.
PaginateRequest ==
    /\ outcome = "none"
    /\ \E lim \in RequestLimits, cur \in RequestCursors :
        /\ ~cur.hasFlag => ~cur.flag
        \* at most one value per order column (see Boundary)
        /\ cur.hasData => Len(cur.data) <= (IF order = <<>> THEN 1 ELSE Len(order))
        /\ Call(order, lim, cur, "raw")

NextRequest == PaginateRequest

SpecRequest == Init /\ [][NextRequest]_vars

----------------------------------------------------------------------------
\* The cursor codec on its own: a cursor generated from a row of any table
\* under any ordering, then decoded as the next call decodes it.

\* The columns of the table: a number, any value, and a column whose name is
\* an array index.
CodecColumns == {"id", "t", "2024"}

\* What a row object of the store may hold in a column: a number, a string,
\* a boolean, null, a Date for a timestamp, or nothing when the column was
\* not selected.
CodecValues ==
    {Number(1), String("a"), Boolean(TRUE), Null, Date(1), Undefined}

CodecRows == [CodecColumns -> CodecValues]

CodecOrderStatement ==
    [grouping : {"order"}, type : {"orderByBasic"}, value : CodecColumns,
     direction : {"asc", "DESC"}]

\* None, one column, or two distinct columns.
CodecOrderings ==
    {<<>>} \cup {<<c>> : c \in CodecOrderStatement}
           \cup {o \in [1..2 -> CodecOrderStatement] : o[1].value # o[2].value}

InitCodec ==
    /\ store = {}
    /\ order \in CodecOrderings
    /\ limit = 1
    /\ cursor = NoCursor
    /\ outcome = "none"
    /\ page = NoPage
    /\ ran = FALSE
    /\ fetched = <<>>
    /\ via = "none"
    /\ chain = "none"
    /\ pageN = <<>>
    /\ trav = <<>>
    /\ phase = "idle"
    /\ stable = {}
    /\ writes = 0
    /\ builder = <<>>
    /\ prior = NoPrior
    /\ codecItem \in CodecRows
    /\ itemFlag \in BOOLEAN
    /\ codec = "idle"
    /\ decoded = NotDecoded
    /\ filterRow = NoItem
    /\ passes = "none"

\* genCursor(clonedColumns, item, itemFlag), with the columns createPaginateFunction
\* makes of the query's ordering.
Encode ==
    /\ codec = "idle"
    /\ LET extracted == extractOrderByClauses(order)
           orderByClauses == IF Len(extracted) = 0 THEN DefaultOrderBy ELSE extracted
       IN  cursor' = genCursor(convertOrderByToColumns(orderByClauses), codecItem,
                           itemFlag)
    /\ codec' = "encoded"
    /\ UNCHANGED <<store, order, limit, outcome, page, ran, fetched, via, chain,
                   pageN, trav, phase, stable, writes, reuseVars, codecItem,
                   itemFlag, decoded, filterVars>>

\* The decoding at the start of the next call.
Decode ==
    /\ codec = "encoded"
    /\ decoded' = JSONparse(cursor)
    /\ codec' = "decoded"
    /\ UNCHANGED <<store, order, limit, cursor, outcome, page, ran, fetched, via,
                   chain, pageN, trav, phase, stable, writes, reuseVars, codecItem,
                   itemFlag, filterVars>>

NextCodec == Encode \/ Decode

SpecCodec == InitCodec /\ [][NextCodec]_vars

----------------------------------------------------------------------------
\* The boundary filter on its own: the where group a call builds from the
\* query's ordering and a cursor with one value per order column, applied
\* to a row of any table.

\* Rows of number columns, with values on both sides of every cursor value.
FilterRows == [CodecColumns -> {Number(n) : n \in 0..MaxT + 1}]

InitFilter ==
    /\ store = {}
    /\ order \in CodecOrderings
    /\ limit = 1
    /\ \E data \in CursorData, pointToNext \in BOOLEAN :
          /\ Len(data) = (IF order = <<>> THEN 1 ELSE Len(order))
          /\ cursor = CursorString("object", TRUE, data, TRUE, pointToNext)
    /\ outcome = "none"
    /\ page = NoPage
    /\ ran = FALSE
    /\ fetched = <<>>
    /\ via = "none"
    /\ chain = "none"
    /\ pageN = <<>>
    /\ trav = <<>>
    /\ phase = "idle"
    /\ stable = {}
    /\ writes = 0
    /\ builder = <<>>
    /\ prior = NoPrior
    /\ codecItem = NoItem
    /\ itemFlag = FALSE
    /\ codec = "off"
    /\ decoded = NotDecoded
    /\ filterRow \in FilterRows
    /\ passes = "none"

\* applyCursorConditions(this, columns, cursorData) as createPaginateFunction
\* calls it, and the where group it adds evaluated on the row.
ApplyFilter ==
    /\ passes = "none"
    /\ LET extracted == extractOrderByClauses(order)
           orderByClauses == IF Len(extracted) = 0 THEN DefaultOrderBy ELSE extracted
           columns == convertOrderByToColumns(orderByClauses)
           cursorData == JSONparse(cursor)
       IN  passes' = IF applyCursorConditions(filterRow, columns, cursorData.data,
                                              cursorData.point_to_next)
                     THEN "yes" ELSE "no"
    /\ UNCHANGED <<store, order, limit, cursor, outcome, page, ran, fetched, via,
                   chain, pageN, trav, phase, stable, writes, reuseVars, codecVars,
                   filterRow>>

NextFilter == ApplyFilter

SpecFilter == InitFilter /\ [][NextFilter]_vars

----------------------------------------------------------------------------
\* Notions the properties below are stated with.

\* The caller's ordering: the order clauses of the query, or id descending
\* when it has none.
OrderSpec ==
    IF order = <<>> THEN <<[column |-> "id", direction |-> "desc"]>>
    ELSE extractOrderByClauses(order)

\* No two rows of the store have the same values in all the order columns.
TuplesDistinct ==
    \A r, s \in store :
        r # s => Precedes(r, s, OrderSpec) \/ Precedes(s, r, OrderSpec)

\* The ordering has the unique column among its columns.
HasUniqueColumn == \E i \in 1..Len(OrderSpec) : OrderSpec[i].column = "id"

\* How many times x occurs in s.
Count(x, s) == Cardinality({i \in 1..Len(s) : s[i] = x})

\* The last call had no cursor, or a cursor that points to the next page.
ForwardCall == cursor = NoCursor \/ (cursor.kind = "object" /\ cursor.flag)

----------------------------------------------------------------------------
C5_LimitRespected ==
    outcome = "page" =>
        /\ Len(page.items) <= limit
        /\ Len(fetched) > limit => fetched[Len(fetched)] \notin Range(page.items)

\* A backward fetch that returned limit + 1 rows.
C5_Witness ==
    /\ outcome = "page" /\ via = "prev"
    /\ Len(fetched) = limit + 1
    /\ Len(page.items) = limit

\* C6: a call without cursor never returns a prevCursor.
C6_FirstPageNoPrev ==
    (outcome = "page" /\ cursor = NoCursor) => page.prevCursor = NoCursor

\* A first page with more rows behind it.
C6_Witness ==
    /\ outcome = "page" /\ cursor = NoCursor
    /\ Len(fetched) > limit
    /\ page.nextCursor # NoCursor

\* C7: when a call without cursor or with a forward cursor gets at most
\* limit rows from the store, the page has no nextCursor, and with a forward
\* cursor and at least one row it has a prevCursor.
C7_LastPageNoNext ==
    (outcome = "page" /\ ForwardCall /\ Len(fetched) <= limit) =>
        /\ page.nextCursor = NoCursor
        /\ (cursor # NoCursor /\ Len(fetched) >= 1) => page.prevCursor # NoCursor

\* The last page of a forward traversal, reached with a forward cursor.
C7_Witness ==
    /\ outcome = "page" /\ cursor # NoCursor /\ ForwardCall
    /\ Len(fetched) >= 1 /\ Len(fetched) <= limit
    /\ page.prevCursor # NoCursor

----------------------------------------------------------------------------
Malformed ==
    \/ cursor.kind \in {"garbage", "null"}
    \/ cursor.kind = "object" /\ (~cursor.hasData \/ ~cursor.hasFlag)

\* C8 as stated, for calls with a valid limit: a call with a malformed
\* cursor fails with an error, returns no page and never executes the fetch.
C8_MalformedCursorRejected ==
    (outcome # "none" /\ limit >= 1 /\ Malformed) => (outcome # "page" /\ ~ran)

\* The cursor of the last call has the required shape, and carries a number
\* of values that is not the number of order columns.
Mismatched ==
    /\ cursor.kind = "object" /\ cursor.hasData /\ cursor.hasFlag
    /\ Len(cursor.data) # Len(OrderSpec)

\* C9 as stated, for calls with a valid limit: a call whose cursor carries
\* a number of values that is not the number of order columns raises an
\* error instead of returning a page.
C9_OrderingMismatchRejected ==
    (outcome # "none" /\ limit >= 1 /\ Mismatched) => outcome # "page"

\* C10 as stated: a call with a limit of zero or less fails and returns no
\* page, for every dataset and cursor.
C10_InvalidLimitRejected ==
    (outcome # "none" /\ limit <= 0) => outcome # "page"

----------------------------------------------------------------------------
\* C11 as stated: for every ordering, row and flag, the decoded cursor has
\* the flag genCursor was given and exactly one value per order column, the
\* i-th value being the row's value in the i-th column of the ordering.
C11_RoundTrip ==
    codec = "decoded" =>
        /\ ~decoded.threw /\ ~decoded.isNull /\ decoded.hasData
        /\ decoded.point_to_next = itemFlag
        /\ Len(decoded.data) = Len(OrderSpec)
        /\ \A i \in 1..Len(OrderSpec) : decoded.data[i] = codecItem[OrderSpec[i].column]

\* C12 as stated, where the store's answer is determined by the query (no
\* two rows tie on the order columns): a second call on the same row source
\* with the same limit and the same cursor, over unchanged data, returns a
\* page identical to the first call's.
C12_RepeatedCallSamePage ==
    (via = "again" /\ TuplesDistinct) =>
        (outcome = prior.outcome /\ page = prior.page)

----------------------------------------------------------------------------
\* The sequence s of rows is in strictly descending order of id.
IdDescending(s) == \A i, j \in 1..Len(s) : i < j => s[i].id.n > s[j].id.n

\* C13: when the query has no order by, the fetch is ordered by id
\* descending (ascending for a backward cursor, the items then being put
\* back), every cursor emitted carries the id of its item and nothing else,
\* and the page properties hold: at most limit items, no prevCursor on a
\* call without cursor, no nextCursor when a forward call got at most limit
\* rows, and a finished forward traversal returns every row once, by id
\* descending.
C13_FallbackIdDesc ==
    (order = <<>> /\ outcome = "page") =>
        /\ IdDescending(IF ForwardCall THEN fetched ELSE Reverse(fetched))
        /\ IdDescending(page.items)
        /\ page.nextCursor # NoCursor =>
              /\ page.nextCursor.data = <<page.items[Len(page.items)].id>>
              /\ page.nextCursor.flag
        /\ page.prevCursor # NoCursor =>
              /\ page.prevCursor.data = <<page.items[1].id>>
              /\ ~page.prevCursor.flag
        /\ Len(page.items) <= limit
        /\ cursor = NoCursor => page.prevCursor = NoCursor
        /\ (ForwardCall /\ Len(fetched) <= limit) => page.nextCursor = NoCursor
        /\ phase = "done" =>
              /\ IdDescending(trav)
              /\ Range(trav) = store

\* A forward traversal of three pages of a query without order by, finished.
C13_Witness ==
    /\ order = <<>> /\ outcome = "page"
    /\ phase = "done" /\ limit = 1 /\ Len(trav) = 3
    /\ cursor # NoCursor /\ page.prevCursor # NoCursor

----------------------------------------------------------------------------
\* r lies strictly beyond the tuple data in the lexicographic order of ord:
\* after it when pointToNext, before it otherwise.  Some column i decides,
\* all columns before i being equal to their values: r's value is greater
\* when the column is ascending and the direction is forward, or descending
\* and backward, and smaller in the two other cases.
StrictlyBeyond(r, ord, data, pointToNext) ==
    \E i \in 1..Len(ord) :
        /\ \A j \in 1..(i - 1) : r[ord[j].column] = data[j]
        /\ IF (ord[i].direction = "asc") = pointToNext
           THEN r[ord[i].column].n > data[i].n
           ELSE r[ord[i].column].n < data[i].n

\* C14 as stated: for an ordering of n columns and a cursor of n values, a
\* row passes the filter exactly when it lies strictly after the cursor's
\* tuple in the lexicographic order of the ordering, the i-th value being
\* compared with the i-th column, for pointsToNext = true, and strictly
\* before it for pointsToNext = false.
C14_FilterIsLexicographic ==
    passes # "none" =>
        (passes = "yes" <=> StrictlyBeyond(filterRow, OrderSpec, cursor.data,
                                           cursor.flag))

----------------------------------------------------------------------------
\* The order by of the statements query, as (column, direction) pairs.
OrderByOf(query) ==
    LET IsOrder(statement) == statement.grouping = "order"
        statements == SelectSeq(query, IsOrder)
    IN  [i \in 1..Len(statements) |->
            [column |-> statements[i].value, direction |-> statements[i].direction]]

\* ord with the direction of every column inverted.
Inverted(ord) ==
    [i \in 1..Len(ord) |->
        [column |-> ord[i].column,
         direction |-> IF ord[i].direction = "asc" THEN "desc" ELSE "asc"]]

\* s is sorted by ord: no row comes before a row that precedes it.
IsSortedBy(s, ord) ==
    \A i, j \in 1..Len(s) : i < j => ~Precedes(s[j], s[i], ord)

\* The query executed by the last call has a where group.
HasFilter == \E i \in 1..Len(builder) : builder[i].grouping = "where"

\* C15: the query a call executes is ordered by the caller's ordering, same
\* columns in the same sequence with the same directions, when the call has
\* no cursor or a cursor with pointsToNext = true, and by the caller's
\* ordering with every direction inverted when the cursor has pointsToNext =
\* false; the rows come back sorted that way; and a call without cursor
\* adds no boundary filter, while a call with a cursor adds one.
C15_FetchOrdering ==
    (outcome = "page" /\ ran) =>
        LET effective == IF ForwardCall THEN OrderSpec ELSE Inverted(OrderSpec)
        IN  /\ OrderByOf(builder) = effective
            /\ IsSortedBy(fetched, effective)
            /\ HasFilter <=> cursor # NoCursor

\* A backward call under a two-column ordering of mixed directions that got
\* two rows equal in the first column, so that the second column decides.
C15_Witness ==
    /\ outcome = "page" /\ ran
    /\ cursor # NoCursor /\ ~ForwardCall
    /\ Len(order) = 2
    /\ order[1].direction = "asc" /\ order[2].direction = "DESC"
    /\ order[1].value = "t"
    /\ Len(fetched) = 2
    /\ fetched[1].t = fetched[2].t

----------------------------------------------------------------------------
\* The cursor string that carries r's values in the columns of ord, in the
\* sequence of ord, and the flag pointsToNext.
CursorOf(r, ord, pointsToNext) ==
    CursorString("object", TRUE, [i \in 1..Len(ord) |-> r[ord[i].column]], TRUE,
                 pointsToNext)

\* C16: in every page returned, after a forward or a backward fetch, the
\* items are in the caller's ordering; a nextCursor that is present carries
\* the order-column values of the last item with pointsToNext = true, a
\* prevCursor that is present those of the first item with pointsToNext =
\* false; and when the store returned more than limit rows the nextCursor
\* is present and the prevCursor is absent exactly when the call had no
\* cursor.
C16_ItemsAndCursors ==
    outcome = "page" =>
        /\ IsSortedBy(page.items, OrderSpec)
        /\ page.nextCursor # NoCursor =>
              /\ page.items # <<>>
              /\ page.nextCursor = CursorOf(page.items[Len(page.items)], OrderSpec, TRUE)
        /\ page.prevCursor # NoCursor =>
              /\ page.items # <<>>
              /\ page.prevCursor = CursorOf(page.items[1], OrderSpec, FALSE)
        /\ Len(fetched) > limit =>
              /\ page.nextCursor # NoCursor
              /\ page.prevCursor = NoCursor <=> cursor = NoCursor

\* A backward fetch under a two-column ordering that returned more than
\* limit rows: the page has both cursors.
C16_Witness ==
    /\ outcome = "page"
    /\ cursor # NoCursor /\ ~ForwardCall
    /\ Len(order) = 2
    /\ Len(fetched) > limit
    /\ page.nextCursor # NoCursor /\ page.prevCursor # NoCursor

====
